---- MODULE Spec2Model ----
(***************************************************************************)
(* Model of src/src/dataset.rs of fsrs-rs: FSRSItem (history, current),    *)
(* FSRSBatcher::batch, filter_outlier and split_data.                      *)
(*                                                                         *)
(* The three dataset operations are pure functions of a list of items, so  *)
(* the initial states draw the input list from bounded families and one    *)
(* action per operation applies it and records its outcome: the returned   *)
(* value, or the panic that ended it.                                      *)
(***************************************************************************)
EXTENDS Integers, Sequences, FiniteSets, Bags

VARIABLES items, pc, filtered_items, pretrainset, trainset, fsrs_batch, panic

vars == <<items, pc, filtered_items, pretrainset, trainset, fsrs_batch, panic>>

(***************************************************************************)
(* Bounds of the input families.                                           *)
(***************************************************************************)
\* Small lists: at most MaxItems items holding at most MaxTotalReviews
\* reviews altogether.
MaxItems == 2
MaxTotalReviews == 4
\* Bulk lists: the size of a frequent delta_t bucket.  The removal budget is
\* total / 20, so a rating group needs 20 items before anything is removed.
BigCount == 19

\* FSRSReview.rating is documented as 1-4; 1 is the only rating batch() tells
\* apart.  FSRSReview.delta_t is a number of days.
Ratings == {1, 3}
DeltaTs == {0, 1, 2}

FSRSReview == [rating : Ratings, delta_t : DeltaTs]
\* The reviews of the small lists.
SmallReviews == [rating : Ratings, delta_t : {0, 2}]

NoPanic == "none"

(***************************************************************************)
(* Generic helpers.                                                        *)
(***************************************************************************)
RECURSIVE SeqsUpTo(_, _)
\* All sequences over S of length at most n.
SeqsUpTo(S, n) ==
    IF n = 0 THEN {<<>>}
    ELSE LET shorter == SeqsUpTo(S, n - 1)
         IN  shorter \cup {Append(s, x) : s \in {t \in shorter : Len(t) = n - 1}, x \in S}

\* The orders in which a hash map holding the keys S may be iterated.
IterOrders(S) ==
    {s \in [1..Cardinality(S) -> S] : \A i, j \in 1..Cardinality(S) : s[i] = s[j] => i = j}

RECURSIVE Replicate(_, _)
Replicate(x, n) == IF n = 0 THEN <<>> ELSE <<x>> \o Replicate(x, n - 1)

RECURSIVE Concat(_)
\* Concatenation of a sequence of sequences.
Concat(ss) == IF ss = <<>> THEN <<>> ELSE Head(ss) \o Concat(Tail(ss))

Reverse(s) == [i \in 1..Len(s) |-> s[Len(s) + 1 - i]]

RECURSIVE SumSeq(_)
SumSeq(s) == IF s = <<>> THEN 0 ELSE Head(s) + SumSeq(Tail(s))

\* The multiset of the elements of a sequence.
BagOfSeq(s) ==
    [x \in {s[i] : i \in 1..Len(s)} |-> Cardinality({i \in 1..Len(s) : s[i] = x})]

(***************************************************************************)
(* FSRSItem.  An item is a record holding its reviews, in chronological    *)
(* order.  The operations below return a record: ok = TRUE with the value  *)
(* v, or ok = FALSE with the panic message msg.                            *)
(***************************************************************************)
Ok(v) == [ok |-> TRUE, v |-> v, msg |-> NoPanic]
Panic(msg) == [ok |-> FALSE, v |-> <<>>, msg |-> msg]

FSRSItem(reviews) == [reviews |-> reviews]

\* self.reviews.iter().take(self.reviews.len() - 1).  The subtraction is on
\* usize: with no reviews it panics when overflow checks are compiled in, and
\* wraps to usize::MAX otherwise, where take() yields the whole (empty) list.
history(item, overflow_checks) ==
    IF Len(item.reviews) = 0
    THEN IF overflow_checks THEN Panic("attempt to subtract with overflow")
         ELSE Ok(item.reviews)
    ELSE Ok(SubSeq(item.reviews, 1, Len(item.reviews) - 1))

\* self.reviews.last().unwrap()
current(item) ==
    IF Len(item.reviews) = 0
    THEN Panic("called Option::unwrap() on a None value")
    ELSE Ok(item.reviews[Len(item.reviews)])

(***************************************************************************)
(* Tensors.  A tensor is a record of its dims and its data: a sequence of  *)
(* elements (1-D) or a sequence of rows (2-D).  Float elements are the     *)
(* f32 values of the NdArray backend the crate runs on; every such value   *)
(* met here is integral and is written as that integer.                    *)
(***************************************************************************)
RECURSIVE Ulp(_, _)
\* The spacing of f32 values around x >= 0: 1 below 2^24, doubling with
\* every further binary digit.
Ulp(x, u) == IF x < (2 ^ 24) * u THEN u ELSE Ulp(x, 2 * u)

\* ElementConversion::elem / Data::convert from u32 to f32: the nearest f32,
\* ties to the even mantissa.  Exact below 2^24.
elem(x) ==
    LET u == Ulp(x, 1)
        q == x \div u
        r == x % u
    IN  IF 2 * r > u \/ (2 * r = u /\ q % 2 = 1) THEN (q + 1) * u ELSE q * u

\* Vec::resize(new_len, value)
resize(v, new_len, value) ==
    [i \in 1..new_len |-> IF i <= Len(v) THEN v[i] ELSE value]

\* Tensor::from_data(Data::new(v, Shape { dims: [n] }).convert())
from_data(v) == [dims |-> <<Len(v)>>, data |-> [i \in 1..Len(v) |-> elem(v[i])]]

\* Tensor::unsqueeze of a 1-D tensor: [n] becomes [1, n].
unsqueeze(t) == [dims |-> <<1, t.dims[1]>>, data |-> <<t.data>>]

\* Tensor::cat(tensors, 0) of tensors of the same rank and trailing dims.
cat(tensors) ==
    IF Len(tensors[1].dims) = 1
    THEN [dims |-> <<SumSeq([i \in 1..Len(tensors) |-> tensors[i].dims[1]])>>,
          data |-> Concat([i \in 1..Len(tensors) |-> tensors[i].data])]
    ELSE [dims |-> <<SumSeq([i \in 1..Len(tensors) |-> tensors[i].dims[1]]),
                     tensors[1].dims[2]>>,
          data |-> Concat([i \in 1..Len(tensors) |-> tensors[i].data])]

\* Mutant: the transposition is left out.
transpose_missing(t) == t

\* Tensor::transpose of a 2-D tensor.
transpose(t) ==
    [dims |-> <<t.dims[2], t.dims[1]>>,
     data |-> [r \in 1..t.dims[2] |-> [c \in 1..t.dims[1] |-> t.data[c][r]]]]

(***************************************************************************)
(* FSRSBatcher::batch                                                      *)
(***************************************************************************)
\* iter().map(|x| x.reviews.len()).max()
MaxReviewsLen(its) ==
    CHOOSE m \in {Len(its[i].reviews) : i \in 1..Len(its)} :
        \A i \in 1..Len(its) : Len(its[i].reviews) <= m

\* The first panic among the results rs, in iteration order.
FirstPanic(rs) ==
    LET bad == {i \in 1..Len(rs) : ~rs[i].ok}
    IN  rs[CHOOSE i \in bad : \A j \in bad : i <= j].msg

\* Mutant: the two arms swapped.
label_swapped(rating) == IF rating = 1 THEN 1 ELSE 0

\* match current.rating { 1 => 0.0, _ => 1.0 }, converted to the Int element.
label(rating) == IF rating = 1 THEN 0 ELSE 1

\* batch() from the subtraction of line 64 on, for a non-empty list.
batch_items(its, overflow_checks) ==
    IF MaxReviewsLen(its) = 0
    THEN \* max - 1 on usize: a panic, or pad_size = usize::MAX and then
         \* Vec::resize(usize::MAX, 0) for the first item.
         IF overflow_checks THEN Panic("attempt to subtract with overflow")
         ELSE Panic("capacity overflow")
    ELSE
    LET pad_size == MaxReviewsLen(its) - 1
        n == Len(its)
        hist == [i \in 1..n |-> history(its[i], overflow_checks)]
        cur == [i \in 1..n |-> current(its[i])]
        time_histories ==
            [i \in 1..n |->
                unsqueeze(from_data(resize(
                    [k \in 1..Len(hist[i].v) |-> hist[i].v[k].delta_t], pad_size, 0)))]
        rating_histories ==
            [i \in 1..n |->
                unsqueeze(from_data(resize(
                    [k \in 1..Len(hist[i].v) |-> hist[i].v[k].rating], pad_size, 0)))]
        delta_ts == [i \in 1..n |-> from_data(<<cur[i].v.delta_t>>)]
        labels == [i \in 1..n |-> [dims |-> <<1>>, data |-> <<label(cur[i].v.rating)>>]]
    IN  IF \E i \in 1..n : ~hist[i].ok THEN Panic(FirstPanic(hist))
        ELSE IF \E i \in 1..n : ~cur[i].ok THEN Panic(FirstPanic(cur))
        ELSE Ok([t_historys |-> transpose(cat(time_histories)),
                 r_historys |-> transpose(cat(rating_histories)),
                 delta_ts   |-> cat(delta_ts),
                 labels     |-> cat(labels)])

\* Mutant: an empty list yields an empty batch instead of the panic.
batch_empty_is_noop(its, overflow_checks) ==
    IF its = <<>> THEN Ok(<<>>) ELSE batch_items(its, overflow_checks)

\* .max().expect("FSRSItem is empty") panics on an empty list.
batch(its, overflow_checks) ==
    IF its = <<>> THEN Panic("FSRSItem is empty")
    ELSE batch_items(its, overflow_checks)

(***************************************************************************)
(* filter_outlier                                                          *)
(***************************************************************************)
first_review(item) == item.reviews[1]
second_review(item) == item.reviews[Len(item.reviews)]

\* The keys of the outer map (first-review ratings) and of the inner map of
\* a rating (delta_t of the current review).
RatingKeys(its) == {first_review(its[i]).rating : i \in 1..Len(its)}
DeltaTKeys(its, rating) ==
    {second_review(its[i]).delta_t :
        i \in {j \in 1..Len(its) : first_review(its[j]).rating = rating}}

\* groups: HashMap<u32, HashMap<u32, Vec<FSRSItem>>>, filled in input order.
groups(its) ==
    [r \in RatingKeys(its) |->
        [d \in DeltaTKeys(its, r) |->
            SelectSeq(its, LAMBDA it : first_review(it).rating = r
                                       /\ second_review(it).delta_t = d)]]

\* The iteration orders of the hash maps of groups(its): one order of the
\* rating keys and, for each rating, one order of its delta_t keys.
HashOrders(its) ==
    [ratings : IterOrders(RatingKeys(its)),
     delta_ts : {f \in [RatingKeys(its) -> UNION {IterOrders(DeltaTKeys(its, r)) : r \in RatingKeys(its)}] :
                    \A r \in RatingKeys(its) : f[r] \in IterOrders(DeltaTKeys(its, r))}]

\* usize::cmp / u32::cmp and Ordering::then
Cmp(a, b) == IF a < b THEN "Less" ELSE IF a = b THEN "Equal" ELSE "Greater"
then(first, second) == IF first = "Equal" THEN second ELSE first

\* Mutant: ties broken by delta_t descending.
cmp_tie_descending(a, b) ==
    then(Cmp(Len(b.items), Len(a.items)), Cmp(b.delta_t, a.delta_t))

\* Mutant: no tie-break, so that equal sizes stay in hash order.
cmp_size_only(a, b) == Cmp(Len(b.items), Len(a.items))

\* The closure given to sort_by: size descending, then delta_t ascending.
cmp_sub_groups(a, b) ==
    then(Cmp(Len(b.items), Len(a.items)), Cmp(a.delta_t, b.delta_t))

\* One step of a stable sort: x goes before the first element it is Less than.
InsertSorted(sorted, x) ==
    LET before == {i \in 1..Len(sorted) : cmp_sub_groups(x, sorted[i]) = "Less"}
        at == IF before = {} THEN Len(sorted) + 1
              ELSE CHOOSE i \in before : \A j \in before : i <= j
    IN  SubSeq(sorted, 1, at - 1) \o <<x>> \o SubSeq(sorted, at, Len(sorted))

RECURSIVE SortFrom(_, _, _)
SortFrom(v, i, sorted) ==
    IF i > Len(v) THEN sorted ELSE SortFrom(v, i + 1, InsertSorted(sorted, v[i]))

\* slice::sort_by, a stable sort.
sort_by(v) == SortFrom(v, 1, <<>>)

\* Mutant: the budget applied to each sub-group on its own.
retain_not_cumulative(has_been_removed, len, total) ==
    len > total \div 20

\* has_been_removed + sub_group.len() > total / 20
retain_sub_group(has_been_removed, len, total) ==
    has_been_removed + len > total \div 20

\* Mutant: the walk goes from the largest sub-group down.
rev_missing(sub_groups) == sub_groups

\* sub_groups.iter().rev()
rev(sub_groups) == Reverse(sub_groups)

RECURSIVE Walk(_, _, _, _, _)
\* The loop over the reversed sub-groups, from position i on.
Walk(walked, i, total, has_been_removed, kept) ==
    IF i > Len(walked) THEN kept
    ELSE IF retain_sub_group(has_been_removed, Len(walked[i].items), total)
         THEN Walk(walked, i + 1, total, has_been_removed, kept \o walked[i].items)
         ELSE Walk(walked, i + 1, total,
                   has_been_removed + Len(walked[i].items), kept)

\* The body of the loop over the rating groups, for one rating group.
filter_rating_group(delta_t_groups, delta_t_order, filtered) ==
    LET sub_groups ==
            sort_by([k \in 1..Len(delta_t_order) |->
                        [delta_t |-> delta_t_order[k],
                         items |-> delta_t_groups[delta_t_order[k]]]])
        total == SumSeq([k \in 1..Len(sub_groups) |-> Len(sub_groups[k].items)])
    IN  Walk(rev(sub_groups), 1, total, 0, filtered)

RECURSIVE FilterFrom(_, _, _, _)
FilterFrom(grps, order, g, filtered) ==
    IF g > Len(order.ratings) THEN filtered
    ELSE FilterFrom(grps, order, g + 1,
                    filter_rating_group(grps[order.ratings[g]],
                                        order.delta_ts[order.ratings[g]], filtered))

filter_outlier(its, order) ==
    IF \E i \in 1..Len(its) : Len(its[i].reviews) = 0
    THEN Panic("called Option::unwrap() on a None value")
    ELSE Ok(FilterFrom(groups(its), order, 1, <<>>))

(***************************************************************************)
(* split_data                                                              *)
(***************************************************************************)
\* Mutant: short items go to the pretrain set too.
is_pretrain_at_most_two(item) == Len(item.reviews) <= 2

\* The predicate of partition.
is_pretrain(item) == Len(item.reviews) = 2

\* Some iteration order of the maps built from its, whatever its holds.
SomeOrder(its) ==
    IF \E i \in 1..Len(its) : Len(its[i].reviews) = 0
    THEN [ratings |-> <<>>, delta_ts |-> <<>>]
    ELSE CHOOSE order \in HashOrders(its) : TRUE

\* Mutant: the train set is filtered as well.
split_data_filters_both(its, order) ==
    LET pretrain == SelectSeq(its, is_pretrain)
        train == SelectSeq(its, LAMBDA it : ~is_pretrain(it))
        filtered == filter_outlier(pretrain, order)
        filtered_train == filter_outlier(train, SomeOrder(train))
    IN  IF filtered.ok /\ filtered_train.ok
        THEN Ok(<<filtered.v, filtered_train.v>>)
        ELSE Panic("called Option::unwrap() on a None value")

\* The order passed on is the one of the maps filter_outlier builds from the
\* pretrain set.
split_data(its, order) ==
    LET pretrain == SelectSeq(its, is_pretrain)
        train == SelectSeq(its, LAMBDA it : ~is_pretrain(it))
        filtered == filter_outlier(pretrain, order)
    IN  IF filtered.ok THEN Ok(<<filtered.v, train>>) ELSE filtered

(***************************************************************************)
(* The input lists.                                                        *)
(***************************************************************************)
RECURSIVE SmallLists(_, _)
\* The lists of at most n items holding at most budget reviews altogether;
\* an item may hold no review at all.
SmallLists(n, budget) ==
    IF n = 0 THEN {<<>>}
    ELSE {<<>>} \cup
         UNION {{<<FSRSItem(rs)>> \o rest : rest \in SmallLists(n - 1, budget - Len(rs))} :
                    rs \in SeqsUpTo(SmallReviews, budget)}

\* The item of a bulk list: first rating r, current delta_t d, len reviews.
BulkItem(r, d, len) ==
    FSRSItem(<<[rating |-> r, delta_t |-> 0]>>
             \o Replicate([rating |-> 3, delta_t |-> 1], len - 2)
             \o <<[rating |-> 3, delta_t |-> d]>>)

\* Bucket sizes of the rating group 1 (at most one frequent bucket) and of the
\* rating group 3 (rare buckets only).  The items of one group hold two
\* reviews and those of the other three.
MajorCounts ==
    {c \in [DeltaTs -> {0, 1, 2, BigCount, 2 * BigCount}] :
        Cardinality({d \in DeltaTs : c[d] >= BigCount}) <= 1}
MinorCounts == [DeltaTs -> {0, 1}]

RECURSIVE Blocks(_, _, _, _)
\* The buckets of rating r one after the other, in ascending delta_t.
Blocks(r, counts, len, todo) ==
    IF todo = {} THEN <<>>
    ELSE LET d == CHOOSE x \in todo : \A y \in todo : x <= y
         IN  Replicate(BulkItem(r, d, len), counts[d])
             \o Blocks(r, counts, len, todo \ {d})

BulkLists ==
    UNION {LET l == Blocks(1, major, len, DeltaTs) \o Blocks(3, minor, 5 - len, DeltaTs)
           IN  {l, Reverse(l)} :
               major \in MajorCounts, minor \in MinorCounts, len \in {2, 3}}

(***************************************************************************)
(* The state machine.                                                      *)
(***************************************************************************)
Init ==
    /\ items \in SmallLists(MaxItems, MaxTotalReviews) \cup BulkLists
    /\ pc = "input"
    /\ filtered_items = <<>>
    /\ pretrainset = <<>>
    /\ trainset = <<>>
    /\ fsrs_batch = <<>>
    /\ panic = NoPanic

HasEmptyItem(its) == \E i \in 1..Len(its) : Len(its[i].reviews) = 0

\* No map is iterated when the grouping loop panics.
NoOrder == [ratings |-> <<>>, delta_ts |-> <<>>]
OrdersOf(its) == IF HasEmptyItem(its) THEN {NoOrder} ELSE HashOrders(its)

FilterOutlier ==
    /\ pc = "input"
    /\ \E order \in OrdersOf(items) :
          LET r == filter_outlier(items, order)
          IN  /\ filtered_items' = r.v
              /\ panic' = r.msg
    /\ pc' = "filter_outlier"
    /\ UNCHANGED <<items, pretrainset, trainset, fsrs_batch>>

SplitData ==
    /\ pc = "input"
    /\ \E order \in OrdersOf(SelectSeq(items, is_pretrain)) :
          LET r == split_data(items, order)
          IN  /\ pretrainset' = IF r.ok THEN r.v[1] ELSE <<>>
              /\ trainset' = IF r.ok THEN r.v[2] ELSE <<>>
              /\ panic' = r.msg
    /\ pc' = "split_data"
    /\ UNCHANGED <<items, filtered_items, fsrs_batch>>

Batch ==
    /\ pc = "input"
    /\ \E overflow_checks \in BOOLEAN :
          LET r == batch(items, overflow_checks)
          IN  /\ fsrs_batch' = r.v
              /\ panic' = r.msg
    /\ pc' = "batch"
    /\ UNCHANGED <<items, filtered_items, pretrainset, trainset>>

Next == FilterOutlier \/ SplitData \/ Batch

Spec == Init /\ [][Next]_vars

(***************************************************************************)
(* What the properties observe.                                            *)
(***************************************************************************)
FilterDone == pc = "filter_outlier" /\ panic = NoPanic
SplitDone == pc = "split_data" /\ panic = NoPanic
BatchDone == pc = "batch" /\ panic = NoPanic

\* The number of items of its in the rating group r, and in its bucket d.
GroupSize(its, r) ==
    Cardinality({i \in 1..Len(its) : first_review(its[i]).rating = r})
BucketSize(its, r, d) ==
    Cardinality({i \in 1..Len(its) :
        first_review(its[i]).rating = r /\ second_review(its[i]).delta_t = d})

\* Sub-group d of rating group r was dropped whole, resp. kept whole.
Removed(r, d) ==
    BucketSize(items, r, d) > 0 /\ BucketSize(filtered_items, r, d) = 0
Retained(r, d) ==
    BucketSize(items, r, d) > 0
    /\ BucketSize(filtered_items, r, d) = BucketSize(items, r, d)

\* Sub-group a comes before sub-group b in the smallest-to-largest walk: the
\* reverse of size descending, ties by delta_t ascending.
VisitedBefore(r, a, b) ==
    \/ BucketSize(items, r, a) < BucketSize(items, r, b)
    \/ BucketSize(items, r, a) = BucketSize(items, r, b) /\ a > b

(***************************************************************************)
(* filter_outlier                                                          *)
(***************************************************************************)
\* C1: for every rating group, the number of its items missing from the
\* output of filter_outlier is at most floor(total / 20), total being the
\* number of input items of the group.
C1_RemovedWithinBudget ==
    FilterDone =>
        \A r \in RatingKeys(items) :
            GroupSize(items, r) - GroupSize(filtered_items, r)
                <= GroupSize(items, r) \div 20

\* A rating group with two rare buckets of which the budget lets one go.
C1_Witness ==
    /\ FilterDone
    /\ \E r \in RatingKeys(items) :
          /\ GroupSize(items, r) - GroupSize(filtered_items, r) = 1
          /\ \E a, b \in DeltaTKeys(items, r) :
                /\ a # b
                /\ BucketSize(items, r, a) = 1
                /\ BucketSize(items, r, b) = 1

\* C2: within a rating group, once the smallest-to-largest walk retains a
\* sub-group every sub-group visited after it is retained, and no removed
\* sub-group has more items than a retained one.
C2_RetainedThenAllRetained ==
    FilterDone =>
        \A r \in RatingKeys(items) : \A a, b \in DeltaTKeys(items, r) :
            /\ (Retained(r, a) /\ VisitedBefore(r, a, b)) => Retained(r, b)
            /\ (Removed(r, a) /\ Retained(r, b))
                    => BucketSize(items, r, a) <= BucketSize(items, r, b)

\* A group with a removed bucket, a retained small bucket and a larger one
\* visited after it.
C2_Witness ==
    /\ FilterDone
    /\ \E r \in RatingKeys(items) : \E a, b, c \in DeltaTKeys(items, r) :
          /\ Removed(r, a)
          /\ Retained(r, b)
          /\ BucketSize(items, r, b) <= 2
          /\ BucketSize(items, r, a) < BucketSize(items, r, b)
          /\ VisitedBefore(r, b, c)
          /\ Retained(r, c)

\* C9: among sub-groups of equal size of a rating group the one with the
\* larger delta_t is considered for removal first: when a sub-group is
\* removed, every sub-group of the same size with a larger delta_t is too.
C9_TieLargerDeltaFirst ==
    FilterDone =>
        \A r \in RatingKeys(items) : \A a, b \in DeltaTKeys(items, r) :
            ( /\ BucketSize(items, r, a) = BucketSize(items, r, b)
              /\ b > a
              /\ Removed(r, a) ) => Removed(r, b)

\* Two buckets of one size, the budget exhausted between them.
C9_Witness ==
    /\ FilterDone
    /\ \E r \in RatingKeys(items) : \E a, b \in DeltaTKeys(items, r) :
          /\ BucketSize(items, r, a) = BucketSize(items, r, b)
          /\ b > a
          /\ Removed(r, b)
          /\ Retained(r, a)

RECURSIVE CanonFrom(_, _)
\* The elements of the bag B over todo, listed in an order that depends on
\* the bag alone.
CanonFrom(B, todo) ==
    IF todo = {} THEN <<>>
    ELSE LET x == CHOOSE y \in todo : TRUE
         IN  Replicate(x, B[x]) \o CanonFrom(B, todo \ {x})

CanonList(its) == CanonFrom(BagOfSeq(its), DOMAIN BagOfSeq(its))

RECURSIVE Ascending(_)
Ascending(S) ==
    IF S = {} THEN <<>>
    ELSE LET m == CHOOSE x \in S : \A y \in S : x <= y
         IN  <<m>> \o Ascending(S \ {m})

\* The maps iterated in ascending order of their keys.
AscendingOrder(its) ==
    [ratings |-> Ascending(RatingKeys(its)),
     delta_ts |-> [r \in RatingKeys(its) |-> Ascending(DeltaTKeys(its, r))]]

\* What filter_outlier returns for the canonical listing of the multiset of
\* the input, its maps iterated in ascending key order.
CanonFiltered ==
    filter_outlier(CanonList(items), AscendingOrder(CanonList(items))).v

\* C10: the multiset of items filter_outlier retains depends only on the
\* multiset of its input: whatever the order of the input list and the
\* iteration orders of the hash maps, it is the multiset retained for the
\* canonical listing of the input.
C10_MultisetOrderIndependent ==
    FilterDone => BagOfSeq(filtered_items) = BagOfSeq(CanonFiltered)

\* An input in another order than the canonical one, with something removed
\* and an output in another order than the canonical output.
C10_Witness ==
    /\ FilterDone
    /\ items # CanonList(items)
    /\ Len(filtered_items) < Len(items)
    /\ filtered_items # CanonFiltered

(***************************************************************************)
(* split_data                                                              *)
(***************************************************************************)
\* C3 as stated: every item of the pretrain set has exactly two reviews and
\* every item of the train set has more than two.  Stated for the lists whose
\* items all hold a review, so that it is not an item without reviews that
\* decides it.
C3_TrainMoreThanTwo ==
    (SplitDone /\ ~HasEmptyItem(items)) =>
        /\ \A i \in 1..Len(pretrainset) : Len(pretrainset[i].reviews) = 2
        /\ \A i \in 1..Len(trainset) : Len(trainset[i].reviews) > 2

\* C3 as amended: every item of the pretrain set has exactly two reviews and
\* every item of the train set has a number of reviews other than two.
C3_TrainNotTwo ==
    SplitDone =>
        /\ \A i \in 1..Len(pretrainset) : Len(pretrainset[i].reviews) = 2
        /\ \A i \in 1..Len(trainset) : Len(trainset[i].reviews) # 2

\* A split with both sets inhabited, the train set by an item of one review.
C3_Witness ==
    /\ SplitDone
    /\ pretrainset # <<>>
    /\ \E i \in 1..Len(trainset) : Len(trainset[i].reviews) = 1

MoreThanTwo(item) == Len(item.reviews) > 2

\* C8: the items of more than two reviews are in the train set as they are in
\* the input: the same items, as many times, in the same relative order.
C8_TrainSetUnfiltered ==
    SplitDone => SelectSeq(trainset, MoreThanTwo) = SelectSeq(items, MoreThanTwo)

\* A train set filter_outlier would have dropped from: a rating group of at
\* least 20 items of three reviews with a bucket of one; and a pretrain set.
C8_Witness ==
    /\ SplitDone
    /\ pretrainset # <<>>
    /\ \A i \in 1..Len(trainset) : MoreThanTwo(trainset[i])
    /\ \E r \in RatingKeys(trainset) : \E d \in DeltaTKeys(trainset, r) :
          /\ GroupSize(trainset, r) >= 20
          /\ BucketSize(trainset, r, d) = 1

(***************************************************************************)
(* FSRSBatcher::batch                                                      *)
(***************************************************************************)
HistoryLen(item) == Len(item.reviews) - 1

\* t has the shape [rows, cols] and holds at (r, c) the value at[r, c].
HoldsMatrix(t, rows, cols, at(_, _)) ==
    /\ t.dims = <<rows, cols>>
    /\ Len(t.data) = rows
    /\ \A r \in 1..rows :
          /\ Len(t.data[r]) = cols
          /\ \A c \in 1..cols : t.data[r][c] = at(r, c)

\* C4: for a non-empty list of n items of at least one review each, batch
\* completes and both history tensors have the shape [pad_size, n], pad_size
\* being the largest review count minus one; entry (t, i) is the rating,
\* resp. the delta_t, of the t-th review of item i when t is within the
\* history of item i and 0 otherwise.  With one review everywhere the
\* tensors have no time step.
C4_HistoryTensors ==
    (pc = "batch" /\ items # <<>> /\ ~HasEmptyItem(items)) =>
        LET pad_size == MaxReviewsLen(items) - 1
            rating_at(t, i) ==
                IF t <= HistoryLen(items[i]) THEN items[i].reviews[t].rating ELSE 0
            delta_t_at(t, i) ==
                IF t <= HistoryLen(items[i]) THEN items[i].reviews[t].delta_t ELSE 0
        IN  /\ panic = NoPanic
            /\ HoldsMatrix(fsrs_batch.r_historys, pad_size, Len(items), rating_at)
            /\ HoldsMatrix(fsrs_batch.t_historys, pad_size, Len(items), delta_t_at)

\* A batch of histories of different lengths: two time steps, an item that
\* fills them with a non-zero delta_t and an item that is padded.
C4_Witness ==
    /\ BatchDone
    /\ Len(items) >= 2
    /\ fsrs_batch.t_historys.dims = <<2, Len(items)>>
    /\ \E i, j \in 1..Len(items) :
          /\ HistoryLen(items[i]) = 2
          /\ items[i].reviews[2].delta_t # 0
          /\ HistoryLen(items[j]) = 0

\* The degenerate batch of C4: several items, one review each.
C4_NoTimeStep ==
    /\ BatchDone
    /\ Len(items) >= 2
    /\ \A i \in 1..Len(items) : Len(items[i].reviews) = 1
    /\ fsrs_batch.t_historys = [dims |-> <<0, Len(items)>>, data |-> <<>>]

\* C5: labels and delta_ts follow the input order: labels[i] is 0 if and
\* only if the current review of item i has rating 1, and 1 otherwise;
\* delta_ts[i] is the delta_t of that review.
C5_LabelsAndDeltaTs ==
    BatchDone =>
        /\ fsrs_batch.labels.dims = <<Len(items)>>
        /\ fsrs_batch.delta_ts.dims = <<Len(items)>>
        /\ Len(fsrs_batch.labels.data) = Len(items)
        /\ Len(fsrs_batch.delta_ts.data) = Len(items)
        /\ \A i \in 1..Len(items) :
              LET last == items[i].reviews[Len(items[i].reviews)]
              IN  /\ fsrs_batch.labels.data[i] = 0 <=> last.rating = 1
                  /\ fsrs_batch.labels.data[i] \in {0, 1}
                  /\ fsrs_batch.delta_ts.data[i] = last.delta_t

\* A batch with both labels, whose items differ in their current delta_t and
\* whose history ends on another rating than the current review.
C5_Witness ==
    /\ BatchDone
    /\ fsrs_batch.labels.data = <<0, 1>>
    /\ fsrs_batch.delta_ts.data = <<2, 0>>
    /\ Len(items[1].reviews) = 2
    /\ items[1].reviews[1].rating = 3

\* C6 as stated: an operation given a list with an item of no review ends in
\* an error and returns nothing.
C6_EmptyItemFailsFast ==
    (pc # "input" /\ HasEmptyItem(items)) =>
        /\ panic # NoPanic
        /\ filtered_items = <<>> /\ pretrainset = <<>>
        /\ trainset = <<>> /\ fsrs_batch = <<>>

\* C7 as stated: batch of an empty list completes without an error.
C7_EmptyBatchNoError ==
    (pc = "batch" /\ items = <<>>) => panic = NoPanic

\* C7 as amended: batch of an empty list ends in the panic of the expect on
\* the maximum, "FSRSItem is empty", and returns no batch.
C7_EmptyBatchPanics ==
    (pc = "batch" /\ items = <<>>) =>
        panic = "FSRSItem is empty" /\ fsrs_batch = <<>>

\* batch was called with the empty list.
C7_Witness == pc = "batch" /\ items = <<>>

====
